---- MODULE Spec2Model ----
(***************************************************************************)
(* Model of mysite/mysite/views.py: the predict_yield view, the lazy model *)
(* loader _get_model, the module-level Groq client and the heuristic       *)
(* _local_recommendations.                                                 *)
(*                                                                         *)
(* Nullable Python values are options: None is <<>>, a value v is <<v>>.   *)
(* Strings the code inspects (form fields, completion text) are sequences  *)
(* of one-character strings.  Floats are integers (the numerals the model  *)
(* submits have no fraction); model.predict output is in thousandths and   *)
(* the rounded prediction in hundredths.                                   *)
(*                                                                         *)
(* Each worker thread runs predict_yield; fr[t] is its frame (position and *)
(* locals).  _get_model is split at every read and write of the two module *)
(* globals, joblib.load is a step of its own, and the view body is split   *)
(* at its external calls (model.predict, the Groq completion call).        *)
(* last is the observation of the most recently rendered response and of   *)
(* what the request did on the way; it is cleared when a request arrives.  *)
(***************************************************************************)
EXTENDS Integers, Sequences, FiniteSets

\* ---------------------------------------------------------------- bounds
NThreads == 2        \* worker threads of the server handling requests
RainSpan == 2        \* submitted rainfall numerals: Threshold-RainSpan .. Threshold+RainSpan

\* ------------------------------------------------------ program constants
Threshold == 250     \* views.py:41  rainfall < 250

Threads == 1..NThreads

None == <<>>
Some(v) == <<v>>

Digits == <<"0", "1", "2", "3", "4", "5", "6", "7", "8", "9">>
Whitespace == {" ", "\n", "\t"}

\* -------------------------------------------------- module initialisation
\* views.py:15-25: the client exists iff the key is set and Groq() does not raise.
InitClient(key, ctorRaises) ==
    IF key = None THEN None
    ELSE IF ctorRaises THEN None
    ELSE Some("Groq")

\* ------------------------------------------------------------ conversions
DigitValue(c) == CHOOSE d \in 0..9 : Digits[d + 1] = c

IsDigit(c) == \E d \in 0..9 : Digits[d + 1] = c

RECURSIVE DigitsValue(_)
DigitsValue(s) ==
    IF s = <<>> THEN 0
    ELSE 10 * DigitsValue(SubSeq(s, 1, Len(s) - 1)) + DigitValue(s[Len(s)])

\* float(x) on the submitted values: None raises TypeError, a non-empty run of
\* decimal digits yields its value, anything else raises ValueError.
ParseFloat(field) ==
    IF field = None THEN [ok |-> FALSE, exc |-> "TypeError", val |-> 0]
    ELSE IF Len(field[1]) > 0 /\ \A i \in 1..Len(field[1]) : IsDigit(field[1][i])
         THEN [ok |-> TRUE, exc |-> "", val |-> DigitsValue(field[1])]
         ELSE [ok |-> FALSE, exc |-> "ValueError", val |-> 0]

\* request.POST.get(k) == 'Yes'
IsYes(field) == field = Some(<<"Y", "e", "s">>)

\* round(x, 2) with x in thousandths, result in hundredths (round half to even).
Round2(x) ==
    LET q == x \div 10
        r == x % 10
    IN  IF r < 5 THEN q
        ELSE IF r > 5 THEN q + 1
        ELSE IF q % 2 = 0 THEN q ELSE q + 1

\* str.strip()
RECURSIVE LStrip(_)
LStrip(s) ==
    IF s # <<>> /\ s[1] \in Whitespace THEN LStrip(Tail(s)) ELSE s

RECURSIVE RStrip(_)
RStrip(s) ==
    IF s # <<>> /\ s[Len(s)] \in Whitespace THEN RStrip(SubSeq(s, 1, Len(s) - 1)) ELSE s

Strip_none(s) == s

Strip(s) == RStrip(LStrip(s))

\* "\n".join(parts)
RECURSIVE Join(_)
Join(parts) ==
    IF parts = <<>> THEN <<>>
    ELSE IF Len(parts) = 1 THEN <<parts[1]>>
    ELSE <<parts[1], "\n">> \o Join(Tail(parts))

\* recs[:n]
Take(s, n) == SubSeq(s, 1, IF Len(s) < n THEN Len(s) ELSE n)

\* ------------------------------------------------- _local_recommendations
FertTest == "Do a soil test and apply balanced fertilizer as per results."
FertTiming == "Ensure fertilizer timing and rates match crop needs."
IrrOptimize == "Optimize irrigation schedule to avoid water stress."
IrrSmall == "Consider small-scale irrigation (drip/mulch) to conserve moisture."
RainMulch == "Use mulching or cover crops to retain soil moisture during dry spells."
RainDrain == "Monitor drainage and avoid waterlogging; improve soil structure if needed."

_local_recommendations_le(region, crop, soil_type, rainfall, temperature, fertilizer_used, irrigation_used, weather, days_to_harvest, prediction) ==
    LET r1 == IF ~fertilizer_used THEN <<FertTest>> ELSE <<FertTiming>>
        r2 == IF irrigation_used THEN Append(r1, IrrOptimize) ELSE Append(r1, IrrSmall)
        r3 == IF rainfall <= Threshold THEN Append(r2, RainMulch) ELSE Append(r2, RainDrain)
    IN  Join(Take(r3, 3))

_local_recommendations(region, crop, soil_type, rainfall, temperature, fertilizer_used, irrigation_used, weather, days_to_harvest, prediction) ==
    LET r1 == IF ~fertilizer_used THEN <<FertTest>> ELSE <<FertTiming>>
        r2 == IF irrigation_used THEN Append(r1, IrrOptimize) ELSE Append(r1, IrrSmall)
        r3 == IF rainfall < Threshold THEN Append(r2, RainMulch) ELSE Append(r2, RainDrain)
    IN  Join(Take(r3, 3))

\* ------------------------------------------------------------------ state
VARIABLES
    client,             \* views.py:15-25  module-level Groq client (option)
    _model,             \* views.py:11     module-level model handle (option)
    _model_load_error,  \* views.py:12     module-level cached load exception (option)
    fr,                 \* per-thread frame of predict_yield / _get_model
    loadAttempts,       \* number of joblib.load calls made by the process
    last                \* option: observation of the last rendered response

vars == <<client, _model, _model_load_error, fr, loadAttempts, last>>

\* --------------------------------------------------------------- inputs
Chars(n) ==
    IF n < 10 THEN <<Digits[n + 1]>>
    ELSE IF n < 100 THEN <<Digits[(n \div 10) + 1], Digits[(n % 10) + 1]>>
    ELSE <<Digits[(n \div 100) + 1], Digits[((n \div 10) % 10) + 1], Digits[(n % 10) + 1]>>

RainfallFields ==
    {Some(Chars(n)) : n \in (Threshold - RainSpan)..(Threshold + RainSpan)}
        \cup {Some(<<"a", "b", "c">>), None}
TemperatureFields == {Some(<<"2", "2">>), Some(<<"7">>), None}
DaysFields == {Some(<<"9", "0">>), Some(<<"1", "2", "0">>), Some(<<"9", "x">>)}
FertilizerFields == {Some(<<"Y", "e", "s">>), Some(<<"N", "o">>), None}
IrrigationFields == {Some(<<"Y", "e", "s">>), Some(<<"y", "e", "s">>), None}
RegionFields == {Some(<<"N">>), None}
WeatherFields == {Some(<<"S">>), None}

PostForms ==
    [region : RegionFields, crop : {Some(<<"W">>)}, soil_type : {Some(<<"L">>)},
     rainfall : RainfallFields, temperature : TemperatureFields,
     fertilizer_used : FertilizerFields, irrigation_used : IrrigationFields,
     weather : WeatherFields, days_to_harvest : DaysFields]

EmptyForm ==
    [region |-> None, crop |-> None, soil_type |-> None, rainfall |-> None,
     temperature |-> None, fertilizer_used |-> None, irrigation_used |-> None,
     weather |-> None, days_to_harvest |-> None]

Requests ==
    {[method |-> "GET", POST |-> EmptyForm]}
        \cup {[method |-> "POST", POST |-> f] : f \in PostForms}

\* The requests served while several threads run at once: one of each kind.
ConcRequests ==
    {[method |-> "GET", POST |-> EmptyForm],
     [method |-> "POST", POST |-> EmptyForm],
     [method |-> "POST",
      POST |-> [region |-> Some(<<"N">>), crop |-> Some(<<"W">>), soil_type |-> Some(<<"L">>),
                rainfall |-> Some(Chars(Threshold)), temperature |-> Some(<<"2", "2">>),
                fertilizer_used |-> Some(<<"Y", "e", "s">>), irrigation_used |-> None,
                weather |-> Some(<<"S">>), days_to_harvest |-> Some(<<"9", "0">>)]]}

\* joblib.load(MODEL_PATH): a handle, or one of two exceptions.
LoadOutcomes ==
    {[raises |-> FALSE, exc |-> "", handle |-> "model"],
     [raises |-> TRUE, exc |-> "e1", handle |-> ""],
     [raises |-> TRUE, exc |-> "e2", handle |-> ""]}

\* model.predict(input_data)[0]: raises, or a value in thousandths.
PredictOutcomes ==
    {[raises |-> TRUE, exc |-> "PredictError", val |-> 0]}
        \cup {[raises |-> FALSE, exc |-> "", val |-> v] : v \in {12, 4565, 4575}}

\* client.chat.completions.create(...): raises, or a completion whose
\* choices[0].message.content is None or a string.
AiOutcomes ==
    {[raises |-> TRUE, exc |-> "APIError", content |-> None]}
        \cup {[raises |-> FALSE, exc |-> "", content |-> c] :
                c \in {None, Some(<<>>), Some(<<" ", "\n">>), Some(<<" ", "1", ")", "\n">>)}}

\* ------------------------------------------------------ predict_yield body
\* views.py:65  if load_error:
LoadErrorSet_never(load_error) == FALSE

LoadErrorSet(load_error) == load_error # None

\* views.py:75-83: the form fields in the order the code reads them; the first
\* float() that raises ends the try block.
ParseForm_lenient(POST) ==
    LET num(f) == IF ParseFloat(f).ok THEN ParseFloat(f).val ELSE 0
    IN  [ok |-> TRUE, exc |-> "", fieldsRead |-> 9, floatCalls |-> 3,
         obs |-> Some([region |-> POST.region, crop |-> POST.crop,
                       soil_type |-> POST.soil_type, rainfall |-> num(POST.rainfall),
                       temperature |-> num(POST.temperature),
                       fertilizer_used |-> IsYes(POST.fertilizer_used),
                       irrigation_used |-> IsYes(POST.irrigation_used),
                       weather |-> POST.weather,
                       days_to_harvest |-> num(POST.days_to_harvest)])]

ParseForm(POST) ==
    LET rainfall == ParseFloat(POST.rainfall)
        temperature == ParseFloat(POST.temperature)
        days_to_harvest == ParseFloat(POST.days_to_harvest)
        failed(p, nread, nfloat) ==
            [ok |-> FALSE, exc |-> p.exc, fieldsRead |-> nread, floatCalls |-> nfloat,
             obs |-> None]
    IN  IF ~rainfall.ok THEN failed(rainfall, 4, 1)
        ELSE IF ~temperature.ok THEN failed(temperature, 5, 2)
        ELSE IF ~days_to_harvest.ok THEN failed(days_to_harvest, 9, 3)
        ELSE [ok |-> TRUE, exc |-> "", fieldsRead |-> 9, floatCalls |-> 3,
              obs |-> Some([region |-> POST.region, crop |-> POST.crop,
                            soil_type |-> POST.soil_type, rainfall |-> rainfall.val,
                            temperature |-> temperature.val,
                            fertilizer_used |-> IsYes(POST.fertilizer_used),
                            irrigation_used |-> IsYes(POST.irrigation_used),
                            weather |-> POST.weather,
                            days_to_harvest |-> days_to_harvest.val])]

\* views.py:97  round(model.predict(input_data)[0], 2); a None model has no
\* predict attribute.
Predict_swallow(model, out) ==
    IF model = None \/ out.raises THEN [raises |-> FALSE, exc |-> "", prediction |-> Some(0)]
    ELSE [raises |-> FALSE, exc |-> "", prediction |-> Some(Round2(out.val))]

Predict(model, out) ==
    IF model = None THEN [raises |-> TRUE, exc |-> "AttributeError", prediction |-> None]
    ELSE IF out.raises THEN [raises |-> TRUE, exc |-> out.exc, prediction |-> None]
    ELSE [raises |-> FALSE, exc |-> "", prediction |-> Some(Round2(out.val))]

Local(o, prediction) ==
    _local_recommendations(o.region, o.crop, o.soil_type, o.rainfall, o.temperature,
                           o.fertilizer_used, o.irrigation_used, o.weather,
                           o.days_to_harvest, prediction)

\* views.py:137-149: strategy selection and fallback.  exc is the exception
\* leaving the block (none in the code as written).
Recommend_noinner(cl, o, prediction, ai) ==
    IF cl = None
    THEN [recommendations |-> Some(Local(o, prediction)), exc |-> None,
          aiCalls |-> 0, localCalls |-> 1]
    ELSE IF ai.raises
    THEN [recommendations |-> None, exc |-> Some(ai.exc), aiCalls |-> 1, localCalls |-> 0]
    ELSE IF ai.content = None
    THEN [recommendations |-> None, exc |-> Some("AttributeError"),
          aiCalls |-> 1, localCalls |-> 0]
    ELSE [recommendations |-> Some(Strip(ai.content[1])), exc |-> None,
          aiCalls |-> 1, localCalls |-> 0]

Recommend_nocheck(cl, o, prediction, ai) ==
    IF cl = None \/ ai.raises \/ ai.content = None
    THEN [recommendations |-> Some(Local(o, prediction)), exc |-> None,
          aiCalls |-> 1, localCalls |-> 1]
    ELSE [recommendations |-> Some(Strip(ai.content[1])), exc |-> None,
          aiCalls |-> 1, localCalls |-> 0]

Recommend(cl, o, prediction, ai) ==
    IF cl = None
    THEN [recommendations |-> Some(Local(o, prediction)), exc |-> None,
          aiCalls |-> 0, localCalls |-> 1]
    ELSE IF ai.raises \/ ai.content = None
    THEN [recommendations |-> Some(Local(o, prediction)), exc |-> None,
          aiCalls |-> 1, localCalls |-> 1]
    ELSE [recommendations |-> Some(Strip(ai.content[1])), exc |-> None,
          aiCalls |-> 1, localCalls |-> 0]

\* ----------------------------------------------------------------- frames
IdleFrame ==
    [pc |-> "idle", model |-> None, load_error |-> None, loaded |-> None,
     req |-> None, obs |-> None, prediction |-> None, predOut |-> None,
     errAtStart |-> None, loads |-> 0, fieldsRead |-> 0, floatCalls |-> 0,
     predictCalls |-> 0]

\* views.py:67-71, 154-158  render(request, 'predict.html', {...}): the
\* response, with what the request did before it.
Rendered(f, req, prediction, recommendations, error_message, ai, aiCalls, localCalls) ==
    [req |-> req, model |-> f.model, load_error |-> f.load_error,
     errAtStart |-> f.errAtStart, loads |-> f.loads,
     fieldsRead |-> f.fieldsRead, floatCalls |-> f.floatCalls,
     predictCalls |-> f.predictCalls, predOut |-> f.predOut, obs |-> f.obs,
     aiOut |-> ai, aiCalls |-> aiCalls, localCalls |-> localCalls,
     prediction |-> prediction, recommendations |-> recommendations,
     error_message |-> error_message]

\* ---------------------------------------------------------------- actions
Init ==
    /\ \E key \in {None, Some("k")}, ctorRaises \in BOOLEAN :
           client = InitClient(key, ctorRaises)
    /\ _model = None
    /\ _model_load_error = None
    /\ fr = [t \in Threads |-> IdleFrame]
    /\ loadAttempts = 0
    /\ last = None

\* views.py:59-64: a request arrives and the view calls _get_model().
Begin(t) ==
    /\ fr[t].pc = "idle"
    /\ fr' = [fr EXCEPT ![t] = [IdleFrame EXCEPT !.pc = "chk_model",
                                                 !.errAtStart = _model_load_error]]
    /\ last' = None
    /\ UNCHANGED <<client, _model, _model_load_error, loadAttempts>>

\* views.py:50  _model is None
CheckModel(t) ==
    /\ fr[t].pc = "chk_model"
    /\ fr' = [fr EXCEPT ![t].pc = IF _model = None THEN "chk_err" ELSE "ret_model"]
    /\ UNCHANGED <<client, _model, _model_load_error, loadAttempts, last>>

\* views.py:50  and _model_load_error is None
CheckErr_retry(t) ==
    /\ fr[t].pc = "chk_err"
    /\ fr' = [fr EXCEPT ![t].pc = "load"]
    /\ UNCHANGED <<client, _model, _model_load_error, loadAttempts, last>>

CheckErr(t) ==
    /\ fr[t].pc = "chk_err"
    /\ fr' = [fr EXCEPT ![t].pc =
                 IF _model_load_error = None THEN "load" ELSE "ret_model"]
    /\ UNCHANGED <<client, _model, _model_load_error, loadAttempts, last>>

\* views.py:52  joblib.load(MODEL_PATH) returns or raises.
Load(t) ==
    /\ fr[t].pc = "load"
    /\ \E out \in LoadOutcomes :
           fr' = [fr EXCEPT ![t].pc = "store", ![t].loaded = Some(out),
                            ![t].loads = @ + 1]
    /\ loadAttempts' = loadAttempts + 1
    /\ UNCHANGED <<client, _model, _model_load_error, last>>

\* views.py:52  _model = ...   /   views.py:54  _model_load_error = e
Store(t) ==
    /\ fr[t].pc = "store"
    /\ LET out == fr[t].loaded[1]
       IN  IF out.raises
           THEN /\ _model_load_error' = Some(out.exc)
                /\ UNCHANGED _model
           ELSE /\ _model' = Some(out.handle)
                /\ UNCHANGED _model_load_error
    /\ fr' = [fr EXCEPT ![t].pc = "ret_model", ![t].loaded = None]
    /\ UNCHANGED <<client, loadAttempts, last>>

\* views.py:56  return _model, ...
RetModel(t) ==
    /\ fr[t].pc = "ret_model"
    /\ fr' = [fr EXCEPT ![t].pc = "ret_err", ![t].model = _model]
    /\ UNCHANGED <<client, _model, _model_load_error, loadAttempts, last>>

\* views.py:56  return ..., _model_load_error   and views.py:64
RetErr(t) ==
    /\ fr[t].pc = "ret_err"
    /\ fr' = [fr EXCEPT ![t].pc = "body", ![t].load_error = _model_load_error]
    /\ UNCHANGED <<client, _model, _model_load_error, loadAttempts, last>>

\* views.py:65-71
RenderLoadError(t, R) ==
    /\ fr[t].pc = "body"
    /\ LoadErrorSet(fr[t].load_error)
    /\ \E req \in R :
           last' = Some(Rendered(fr[t], Some(req), None, None,
                                 Some(<<"Model load error: ", fr[t].load_error[1]>>),
                                 None, 0, 0))
    /\ fr' = [fr EXCEPT ![t] = IdleFrame]
    /\ UNCHANGED <<client, _model, _model_load_error, loadAttempts>>

\* views.py:73, 154-158: not a POST.
RenderGet(t, R) ==
    /\ fr[t].pc = "body"
    /\ ~LoadErrorSet(fr[t].load_error)
    /\ \E req \in R :
           /\ req.method # "POST"
           /\ last' = Some(Rendered(fr[t], Some(req), None, None, None, None, 0, 0))
    /\ fr' = [fr EXCEPT ![t] = IdleFrame]
    /\ UNCHANGED <<client, _model, _model_load_error, loadAttempts>>

\* views.py:73-95, and 151-158 when a float() raises.
Parse(t, R) ==
    /\ fr[t].pc = "body"
    /\ ~LoadErrorSet(fr[t].load_error)
    /\ \E req \in R :
           /\ req.method = "POST"
           /\ LET p == ParseForm(req.POST)
                  f == [fr[t] EXCEPT !.req = Some(req), !.obs = p.obs,
                                     !.fieldsRead = p.fieldsRead,
                                     !.floatCalls = p.floatCalls]
              IN  IF p.ok
                  THEN /\ fr' = [fr EXCEPT ![t] = [f EXCEPT !.pc = "predict"]]
                       /\ UNCHANGED last
                  ELSE /\ fr' = [fr EXCEPT ![t] = IdleFrame]
                       /\ last' = Some(Rendered(f, f.req, None, None,
                                                Some(<<"Error: ", p.exc>>), None, 0, 0))
    /\ UNCHANGED <<client, _model, _model_load_error, loadAttempts>>

\* views.py:97, and 151-158 when it raises.
PredictStep(t) ==
    /\ fr[t].pc = "predict"
    /\ \E out \in PredictOutcomes :
           LET r == Predict(fr[t].model, out)
               f == [fr[t] EXCEPT !.predictCalls = @ + 1, !.predOut = Some(out),
                                  !.prediction = r.prediction]
           IN  IF r.raises
               THEN /\ fr' = [fr EXCEPT ![t] = IdleFrame]
                    /\ last' = Some(Rendered(f, f.req, None, None,
                                             Some(<<"Error: ", r.exc>>), None, 0, 0))
               ELSE /\ fr' = [fr EXCEPT ![t] = [f EXCEPT !.pc = "recommend"]]
                    /\ UNCHANGED last
    /\ UNCHANGED <<client, _model, _model_load_error, loadAttempts>>

\* views.py:137-158
RecommendStep(t) ==
    /\ fr[t].pc = "recommend"
    /\ \E ai \in AiOutcomes :
           LET f == fr[t]
               rec == Recommend(client, f.obs[1], f.prediction[1], ai)
               seen == IF rec.aiCalls > 0 THEN Some(ai) ELSE None
           IN  last' = Some(Rendered(f, f.req, f.prediction, rec.recommendations,
                                     IF rec.exc = None THEN None
                                     ELSE Some(<<"Error: ", rec.exc[1]>>),
                                     seen, rec.aiCalls, rec.localCalls))
    /\ fr' = [fr EXCEPT ![t] = IdleFrame]
    /\ UNCHANGED <<client, _model, _model_load_error, loadAttempts>>

AllIdle == \A t \in Threads : fr[t].pc = "idle"

BeginSeq(t) == AllIdle /\ Begin(t)

\* Requests handled concurrently by the worker threads.
Next ==
    \E t \in Threads :
        \/ Begin(t)
        \/ CheckModel(t)
        \/ CheckErr(t)
        \/ Load(t)
        \/ Store(t)
        \/ RetModel(t)
        \/ RetErr(t)
        \/ RenderLoadError(t, ConcRequests)
        \/ RenderGet(t, ConcRequests)
        \/ Parse(t, ConcRequests)
        \/ PredictStep(t)
        \/ RecommendStep(t)

Spec == Init /\ [][Next]_vars

\* Requests handled one after another: a request arrives only when no other
\* is being handled.
NextSeq ==
    \E t \in Threads :
        \/ BeginSeq(t)
        \/ CheckModel(t)
        \/ CheckErr(t)
        \/ Load(t)
        \/ Store(t)
        \/ RetModel(t)
        \/ RetErr(t)
        \/ RenderLoadError(t, Requests)
        \/ RenderGet(t, Requests)
        \/ Parse(t, Requests)
        \/ PredictStep(t)
        \/ RecommendStep(t)

SpecSeq == Init /\ [][NextSeq]_vars

\* ------------------------------------------------------------ properties
Obs == last[1]

IsPost == Obs.req # None /\ Obs.req[1].method = "POST"

Form == Obs.req[1].POST

\* A submitted value float() rejects: absent, empty, or holding a non-digit.
BadNumber(field) ==
    \/ field = None
    \/ field[1] = <<>>
    \/ \E i \in 1..Len(field[1]) :
           field[1][i] \notin {"0", "1", "2", "3", "4", "5", "6", "7", "8", "9"}

\* The heuristic text as the specification words it, token by token.
HeuristicRef(fertilizer_used, irrigation_used, rainfall) ==
    << IF fertilizer_used THEN FertTiming ELSE FertTest, "\n",
       IF irrigation_used THEN IrrOptimize ELSE IrrSmall, "\n",
       IF rainfall >= 250 THEN RainDrain ELSE RainMulch >>

\* The number a submitted numeral denotes.
Denoted(field) == CHOOSE n \in 0..999 : Chars(n) = field[1]

\* The heuristic text for the fields of the observed request.
HeuristicOfForm ==
    HeuristicRef(Form.fertilizer_used = <<<<"Y", "e", "s">>>>,
                 Form.irrigation_used = <<<<"Y", "e", "s">>>>,
                 Denoted(Form.rainfall))

NewlineCount(text) == Cardinality({i \in 1..Len(text) : text[i] = "\n"})

AllWhitespace(text) == \A i \in 1..Len(text) : text[i] \in {" ", "\n", "\t"}

\* C1: over the lifetime of the process, under any interleaving of
\* concurrently handled requests, joblib.load is attempted at most once.
C1_LoadAtMostOnce == loadAttempts <= 1

\* C2: once a load has failed, every later request (handled one after
\* another, any method, any form) gets the cached error back from _get_model,
\* renders the 'Model load error' message for that same error, and reads the
\* artifact no more.
C2_StickyFailure ==
    (last # None /\ Obs.errAtStart # None) =>
        /\ Obs.load_error = Obs.errAtStart
        /\ _model_load_error = Obs.errAtStart
        /\ Obs.error_message = Some(<<"Model load error: ", Obs.errAtStart[1]>>)
        /\ Obs.loads = 0
        /\ loadAttempts = 1

C2_Witness ==
    /\ last # None
    /\ Obs.errAtStart = Some("e2")
    /\ IsPost
    /\ ~BadNumber(Form.rainfall)
    /\ Obs.error_message # None

\* C3: whenever _get_model returns a load error, the response carries that
\* error as 'Model load error', prediction and recommendations are null, and
\* no form field was read or parsed, predict was not invoked and neither
\* recommendation strategy ran, whatever the method and the form.
C3_LoadErrorShortCircuits ==
    (last # None /\ Obs.load_error # None) =>
        /\ Obs.error_message = Some(<<"Model load error: ", Obs.load_error[1]>>)
        /\ Obs.prediction = None
        /\ Obs.recommendations = None
        /\ Obs.fieldsRead = 0
        /\ Obs.floatCalls = 0
        /\ Obs.predictCalls = 0
        /\ Obs.aiCalls = 0
        /\ Obs.localCalls = 0

C3_Witness ==
    /\ last # None
    /\ Obs.load_error # None
    /\ IsPost
    /\ ~BadNumber(Form.rainfall) /\ ~BadNumber(Form.temperature)
    /\ ~BadNumber(Form.days_to_harvest)
    /\ Obs.prediction = None

\* C4: a POST whose completion call raises while the client is configured is
\* answered with the heuristic text of its own fields, keeps the predicted
\* yield, has no error message, and made exactly one completion call.
C4_AiFailureFallsBack ==
    (last # None /\ IsPost /\ client # None /\ Obs.aiOut # None /\ Obs.aiOut[1].raises) =>
        /\ Obs.recommendations = Some(HeuristicOfForm)
        /\ Obs.prediction # None
        /\ Obs.prediction = Some(Round2(Obs.predOut[1].val))
        /\ Obs.error_message = None
        /\ Obs.aiCalls = 1

C4_Witness ==
    /\ last # None /\ IsPost /\ client # None
    /\ Obs.aiOut # None /\ Obs.aiOut[1].raises
    /\ Obs.recommendations # None
    /\ Obs.localCalls = 1

\* C5: with the client unset no request ever calls the completion service,
\* and every request that reaches the recommendation step returns exactly
\* the heuristic text.
C5_NoClientNoCall ==
    (client = None /\ last # None) =>
        /\ Obs.aiCalls = 0
        /\ Obs.aiOut = None
        /\ (Obs.prediction # None => Obs.recommendations = Some(HeuristicOfForm))

C5_Witness ==
    /\ client = None /\ last # None
    /\ Obs.prediction # None
    /\ Obs.localCalls = 1
    /\ Obs.recommendations # None

\* C6: a POST in which rainfall, temperature or days_to_harvest is absent or
\* non-numeric never invokes predict, runs neither recommendation strategy,
\* and is answered with an error message and null prediction and
\* recommendations.
C6_BadNumberFailsRequest ==
    (last # None /\ IsPost /\ (\/ BadNumber(Form.rainfall)
                               \/ BadNumber(Form.temperature)
                               \/ BadNumber(Form.days_to_harvest))) =>
        /\ Obs.predictCalls = 0
        /\ Obs.aiCalls = 0
        /\ Obs.localCalls = 0
        /\ Obs.error_message # None
        /\ Obs.prediction = None
        /\ Obs.recommendations = None

C6_Witness ==
    /\ last # None /\ IsPost
    /\ Obs.load_error = None
    /\ ~BadNumber(Form.rainfall) /\ ~BadNumber(Form.temperature)
    /\ BadNumber(Form.days_to_harvest)
    /\ Obs.floatCalls = 3
    /\ Obs.error_message = Some(<<"Error: ", "ValueError">>)

\* C7: a POST in which predict raises still completes with a rendered
\* response that has an error message and null prediction and
\* recommendations; no completion call was made and the heuristic did not run.
C7_PredictFailureReported ==
    (last # None /\ IsPost /\ Obs.predOut # None /\ Obs.predOut[1].raises) =>
        /\ Obs.error_message = Some(<<"Error: ", Obs.predOut[1].exc>>)
        /\ Obs.prediction = None
        /\ Obs.recommendations = None
        /\ Obs.aiCalls = 0
        /\ Obs.localCalls = 0

C7_Witness ==
    /\ last # None /\ IsPost
    /\ Obs.predictCalls = 1
    /\ Obs.predOut # None /\ Obs.predOut[1].raises
    /\ Obs.error_message # None

C9_AlwaysNonEmptyText ==
    (last # None /\ IsPost /\ Obs.model # None /\ Obs.load_error = None
        /\ Obs.obs # None /\ Obs.predOut # None /\ ~Obs.predOut[1].raises) =>
        /\ Obs.prediction # None
        /\ Obs.recommendations # None
        /\ Obs.recommendations[1] # <<>>
        /\ Obs.error_message = None

\* C9 amended: such a request is answered with the rounded prediction, no
\* error message and a recommendation text that is empty exactly when the
\* completion call succeeded with a text made of whitespace only (or empty).
C9_NonEmptyUnlessBlankCompletion ==
    (last # None /\ IsPost /\ Obs.model # None /\ Obs.load_error = None
        /\ Obs.obs # None /\ Obs.predOut # None /\ ~Obs.predOut[1].raises) =>
        /\ Obs.prediction = Some(Round2(Obs.predOut[1].val))
        /\ Obs.error_message = None
        /\ Obs.recommendations # None
        /\ (Obs.recommendations[1] = <<>>) =
               (/\ Obs.aiOut # None
                /\ ~Obs.aiOut[1].raises
                /\ Obs.aiOut[1].content # None
                /\ AllWhitespace(Obs.aiOut[1].content[1]))

C9_Witness ==
    /\ last # None /\ IsPost /\ Obs.model # None /\ Obs.load_error = None
    /\ Obs.predOut # None /\ ~Obs.predOut[1].raises
    /\ Obs.aiOut # None /\ ~Obs.aiOut[1].raises
    /\ Obs.aiOut[1].content = Some(<<" ", "1", ")", "\n">>)
    /\ Obs.recommendations = Some(<<"1", ")">>)

\* C10: in every reachable state, under any interleaving of concurrent calls
\* to _get_model, at most one of _model and _model_load_error is non-null.
C10_ModelXorError == ~(_model # None /\ _model_load_error # None)

====
